---- MODULE Spec2Model ----
(***************************************************************************)
(* Web Monitor (store_alert.py, and its earlier revision store-alert.py):  *)
(* tabs that poll an embedded page, count orders, alert on a threshold and *)
(* pause/resume polling; the tab list is persisted to tabs_config.json.    *)
(*                                                                         *)
(* The event loop is observed once a minute: time is counted in ticks of  *)
(* TickMs, a timer is the number of ticks left until it is served, and it  *)
(* is served at the first tick at or after its deadline (never early).  A  *)
(* timer that reached 0 is due, and time does not advance past a due timer.*)
(***************************************************************************)
EXTENDS Integers, Sequences, FiniteSets, TLC

VARIABLES
    prog,         \* which script runs: "store_alert.py" or "store-alert.py"
    phase,        \* "startup" (before MainApp.__init__), "running", "closed"
    config_file,  \* tabs_config.json: Absent, Garbage, or a JSON list
    file_origin,  \* who wrote config_file last: "external", "closeEvent", "load_tabs"
    app,          \* MainApp's global dropdowns
    tabs,         \* QTabWidget: the tab objects in tab-bar order
    tab,          \* every MonitorTab object constructed in this run
    ev,           \* what the handler that ran last did
    clicks        \* how many configuration edits the user has made

vars == <<prog, phase, config_file, file_origin, app, tabs, tab, ev, clicks>>

----------------------------------------------------------------------------
(* Program constants *)

SCAN_INTERVAL == 15000
RELOAD_INTERVAL == 180000
NO_ORDERS_PAUSE == 180
EMPTY_SCAN_LIMIT == 5
PRICE_ALERT_GAP == 120
DEFAULT_THRESHOLD == 5
DEFAULT_RESUME_DELAY == 1
DEFAULT_MAX_ORDER_PRICE == 100
GLOBAL_THRESHOLD == 5
GLOBAL_DELAY == 15
GLOBAL_PRICE_LIMIT == 70
THRESHOLD_ITEMS_MAX == 10
DELAY_ITEMS_MAX == 20

ThresholdItems == 1..THRESHOLD_ITEMS_MAX
DelayItems == 1..DELAY_ITEMS_MAX

(* Bounds of the model *)

MaxThreshold == 2     \* thresholds the user picks: 1..MaxThreshold
MaxDelay == 2         \* resume delays (minutes) the user picks: 1..MaxDelay
MaxCount == 2         \* order counts a scan reports: 0..MaxCount
MaxPending == 2       \* pending delayed resume callbacks per tab
MaxJs == 1            \* scan results in flight per tab
MaxRecords == 2       \* records in an externally written config list
MaxTabs == 3          \* MonitorTab objects constructed in one run
MaxClicks == 2        \* configuration edits by the user (SpecCfg)

----------------------------------------------------------------------------
(* Time *)

TickMs == 60 * 1000
Ticks(ms) == (ms + TickMs - 1) \div TickMs
Inactive == -1

----------------------------------------------------------------------------
(* URLs: scheme present or not, the page, and the date-range parameter     *)
(* (none, a stale one, or the one _inject_date_range computes today).      *)

Url(http, host, dr) == [http |-> http, host |-> host, dr |-> dr]
EmptyUrl == Url(FALSE, "", "none")

\* if not url.startswith("http"): url = "https://" + url
WithScheme(u) == [u EXCEPT !.http = TRUE]

InjectDateRange(u) == [WithScheme(u) EXCEPT !.dr = "fresh"]

----------------------------------------------------------------------------
(* Prices are in thousandths of a euro; round(x, 2) rounds to cents.       *)

Mils(euro) == euro * 1000
Round2(x) == ((x + 5) \div 10) * 10

----------------------------------------------------------------------------
(* JSON values of a config record, and Python's int() and float().         *)
(* Numbers carry their type and their value in thousandths.                *)

JInt(n) == [k |-> "int", m |-> n * 1000]
JFloat(m) == [k |-> "float", m |-> m]
JStr(s) == [k |-> "str", s |-> s]
JNull == [k |-> "null"]
Missing == [k |-> "missing"]

\* the text of a JSON string that Python reads as a number
IsNumeric(s) == s = "2"
NumericValue(s) == 2

\* dict.get(key, default)
Get(v, default) == IF v = Missing THEN default ELSE v

\* truncation toward zero of a value in thousandths
Trunc(m) == IF m >= 0 THEN m \div 1000 ELSE -((-m) \div 1000)

\* int(x) and float(x) raise ValueError or TypeError on anything else
Converts(x) == x.k \in {"int", "float"} \/ (x.k = "str" /\ IsNumeric(x.s))

\* int(x), where it does not raise
PyInt(x) ==
    CASE x.k = "int" -> x.m \div 1000
      [] x.k = "float" -> Trunc(x.m)
      [] OTHER -> NumericValue(x.s)

\* float(x), where it does not raise
PyFloat(x) ==
    CASE x.k = "int" -> JFloat(x.m)
      [] x.k = "float" -> x
      [] OTHER -> JFloat(NumericValue(x.s) * 1000)

\* json.dump then json.load of a Python number keeps its type and value
PyNum(n) == JInt(n)

\* Python's == on two numbers compares values, whatever the types
NumEq(a, b) == a.m = b.m

\* f"Tab {n}"
TabLabel(n) ==
    CASE n = 1 -> "Tab 1" [] n = 2 -> "Tab 2" [] n = 3 -> "Tab 3"
      [] n = 4 -> "Tab 4" [] OTHER -> "Tab n"

----------------------------------------------------------------------------
(* MonitorTab *)

NoTime == -1

\* QComboBox.setCurrentText before the signal is connected: the text is
\* selected when it is an item, else the first item stays current.
ComboInit(items, v) == IF v \in items THEN v ELSE 1

\* MonitorTab.__init__, init_ui and init_timers
MonitorTab(name, url, threshold, resume_delay, max_order_price) ==
    [ tab_name |-> name,
      url |-> url,
      original_url |-> url,
      url_input |-> url,
      loaded_url |-> url,
      threshold |-> threshold,
      resume_delay |-> resume_delay,
      threshold_dropdown |-> ComboInit(ThresholdItems, threshold),
      delay_dropdown |-> ComboInit(DelayItems, resume_delay),
      max_order_price |-> max_order_price,
      monitoring |-> FALSE,
      paused |-> FALSE,
      page_ready |-> FALSE,
      loading |-> FALSE,
      empty_scan_count |-> 0,
      last_price_alert_time |-> NoTime,
      monitor_timer |-> Inactive,
      reload_timer |-> Ticks(RELOAD_INTERVAL),
      resumes |-> << >>,
      js_pending |-> 0 ]

\* threshold_dropdown.setCurrentText(str(v)) with currentTextChanged connected:
\* only a change to another item emits the signal that sets self.threshold
SetThresholdText(r, v) ==
    IF v \in ThresholdItems /\ v # r.threshold_dropdown
    THEN [r EXCEPT !.threshold_dropdown = v, !.threshold = v]
    ELSE r

SetDelayText(r, v) ==
    IF v \in DelayItems /\ v # r.delay_dropdown
    THEN [r EXCEPT !.delay_dropdown = v, !.resume_delay = v]
    ELSE r

\* add_tab applying the global dropdowns to a tab from the config too
add_tab_global(a, name, url, threshold, resume_delay, max_order_price, from_config) ==
    LET t == MonitorTab(name, url, threshold, resume_delay, max_order_price)
    IN  SetDelayText(SetThresholdText(t, a.global_threshold_dropdown),
                     a.global_delay_dropdown)

\* MainApp.add_tab: the tab object as add_tab leaves it
add_tab(a, name, url, threshold, resume_delay, max_order_price, from_config) ==
    LET t == MonitorTab(name, url, threshold, resume_delay, max_order_price)
    IN  IF from_config
        THEN SetDelayText(SetThresholdText(t, t.threshold), t.resume_delay)
        ELSE SetDelayText(SetThresholdText(t, a.global_threshold_dropdown),
                          a.global_delay_dropdown)

\* MonitorTab.load_url
load_url(r, use_original_url) ==
    LET u == WithScheme(IF use_original_url THEN r.original_url ELSE r.url_input)
    IN  [r EXCEPT !.url = u, !.url_input = u, !.page_ready = FALSE,
                  !.loading = TRUE,
                  !.loaded_url = IF use_original_url THEN @ ELSE u]

\* MonitorTab.get_state
get_state(r) ==
    [ k |-> "obj",
      name |-> JStr(r.tab_name),
      url |-> r.original_url,
      threshold |-> PyNum(r.threshold),
      resume_delay |-> PyNum(r.resume_delay),
      max_order_price |-> r.max_order_price ]

----------------------------------------------------------------------------
(* MainApp: startup and shutdown *)

Absent == [k |-> "absent"]
Garbage == [k |-> "garbage"]
NotAList == [k |-> "number"]
JList(recs) == [k |-> "list", recs |-> recs]

\* MainApp.init_controls
init_controls ==
    [ global_threshold_dropdown |-> GLOBAL_THRESHOLD,
      global_delay_dropdown |-> GLOBAL_DELAY,
      global_price_limit |-> GLOBAL_PRICE_LIMIT ]

\* the tab bar and the tab objects, with one more tab appended
Appended(acc, r) ==
    LET id == Cardinality(DOMAIN acc.tab) + 1
    IN  [ tabs |-> Append(acc.tabs, id),
          tab |-> [i \in DOMAIN acc.tab \cup {id} |->
                      IF i = id THEN r ELSE acc.tab[i]] ]

NoTabs == [tabs |-> << >>, tab |-> << >>]

\* the loop body giving a value that does not convert its default instead of
\* skipping the record
LoadRecordWithDefaults(a, acc, data, i) ==
    IF data.k # "obj" THEN acc
    ELSE LET name == Get(data.name, JStr(TabLabel(i)))
             url == Get(data.url, EmptyUrl)
             threshold == Get(data.threshold, JInt(DEFAULT_THRESHOLD))
             resume_delay == Get(data.resume_delay, JInt(DEFAULT_RESUME_DELAY))
             price == Get(data.max_order_price, JInt(DEFAULT_MAX_ORDER_PRICE))
         IN  Appended(acc,
                 load_url(add_tab(a, name.s, url,
                              IF Converts(threshold) THEN PyInt(threshold)
                              ELSE DEFAULT_THRESHOLD,
                              IF Converts(resume_delay) THEN PyInt(resume_delay)
                              ELSE DEFAULT_RESUME_DELAY,
                              IF Converts(price) THEN PyFloat(price)
                              ELSE PyFloat(JInt(DEFAULT_MAX_ORDER_PRICE)),
                              TRUE),
                          TRUE))

\* the body of load_tabs' loop for record number i (from 1): the tab it adds,
\* or nothing when building the record's arguments raises
LoadRecord(a, acc, data, i) ==
    IF data.k # "obj" THEN acc
    ELSE LET name == Get(data.name, JStr(TabLabel(i)))
             url == Get(data.url, EmptyUrl)
             threshold == Get(data.threshold, JInt(DEFAULT_THRESHOLD))
             resume_delay == Get(data.resume_delay, JInt(DEFAULT_RESUME_DELAY))
             price == Get(data.max_order_price, JInt(DEFAULT_MAX_ORDER_PRICE))
         IN  IF Converts(threshold) /\ Converts(resume_delay) /\ Converts(price)
             THEN Appended(acc,
                      load_url(add_tab(a, name.s, url, PyInt(threshold),
                                       PyInt(resume_delay), PyFloat(price), TRUE),
                               TRUE))
             ELSE acc

RECURSIVE LoadRecords(_, _, _, _)
LoadRecords(a, acc, recs, i) ==
    IF i > Len(recs) THEN acc
    ELSE LoadRecords(a, LoadRecord(a, acc, recs[i], i), recs, i + 1)

\* the default tab of a first start
DefaultTab(a) ==
    Appended(NoTabs,
             add_tab(a, TabLabel(1), EmptyUrl, DEFAULT_THRESHOLD,
                     DEFAULT_RESUME_DELAY, JInt(DEFAULT_MAX_ORDER_PRICE), FALSE))

\* load_tabs whose except branches return without the default tab
load_tabs_no_fallback(a, file) ==
    IF file.k = "list" THEN LoadRecords(a, NoTabs, file.recs, 1)
    ELSE IF file.k = "absent" THEN DefaultTab(a)
    ELSE NoTabs

\* MainApp.load_tabs
load_tabs(a, file) ==
    IF file.k = "list" THEN LoadRecords(a, NoTabs, file.recs, 1)
    ELSE DefaultTab(a)

\* the list closeEvent dumps
SavedList(ts, tb) == JList([i \in 1..Len(ts) |-> get_state(tb[ts[i]])])

----------------------------------------------------------------------------
(* What the last handler did *)

NoEv ==
    [ op |-> "none", t |-> 0, n |-> -1, alert |-> FALSE, logs |-> {},
      pause |-> 0, exc |-> FALSE, scan |-> FALSE, ok |-> FALSE, wrote |-> FALSE,
      sound |-> "none", avg |-> 0 ]

Did(op, t) == [NoEv EXCEPT !.op = op, !.t = t]

----------------------------------------------------------------------------
(* MonitorTab: the polling state machine *)

\* MonitorTab.pause_monitoring; alert tells the threshold pause from the
\* no-orders pause in the pending callback
pause_monitoring(r, seconds, alert) ==
    [r EXCEPT !.monitor_timer = Inactive,
              !.paused = TRUE,
              !.resumes = Append(@, [rem |-> Ticks(seconds * 1000),
                                     alert |-> alert])]

\* resume_monitoring without its restart of the scan timer
resume_monitoring_no_restart(r) == [r EXCEPT !.paused = FALSE]

\* MonitorTab.resume_monitoring
resume_monitoring(r) ==
    [r EXCEPT !.paused = FALSE,
              !.monitor_timer = IF r.monitoring THEN Ticks(SCAN_INTERVAL) ELSE @]

\* on_load_finished that only records the outcome of the load
on_load_finished_flag_only(r, ok) ==
    [r EXCEPT !.page_ready = ok, !.loading = FALSE]

\* MonitorTab.on_load_finished
on_load_finished(r, ok) ==
    [r EXCEPT !.page_ready = ok,
              !.loading = FALSE,
              !.monitor_timer =
                  IF ok /\ r.monitoring /\ r.monitor_timer = Inactive /\ ~r.paused
                  THEN Ticks(SCAN_INTERVAL) ELSE @]

\* toggle_monitoring whose stop branch leaves the scan timer running
toggle_monitoring_keeps_timer(r) ==
    IF r.monitoring
    THEN [r EXCEPT !.monitoring = FALSE]
    ELSE [r EXCEPT !.monitor_timer = Ticks(SCAN_INTERVAL), !.monitoring = TRUE]

\* MonitorTab.toggle_monitoring
toggle_monitoring(r) ==
    IF r.monitoring
    THEN [r EXCEPT !.monitor_timer = Inactive, !.monitoring = FALSE]
    ELSE [r EXCEPT !.monitor_timer = Ticks(SCAN_INTERVAL), !.monitoring = TRUE]

\* MonitorTab.reload_page
reload_page(r) ==
    LET u == InjectDateRange(r.original_url)
    IN  [r EXCEPT !.page_ready = FALSE,
                  !.monitor_timer = IF r.monitoring THEN Inactive ELSE @,
                  !.url = u, !.url_input = u, !.loading = TRUE]

\* scan_page without its page_ready test
scan_page_unguarded(r) == [r EXCEPT !.js_pending = @ + 1]

\* MonitorTab.scan_page: runJavaScript is called only on a ready page
scan_page(r) ==
    IF r.page_ready THEN [r EXCEPT !.js_pending = @ + 1] ELSE r

\* MonitorTab.alert_user: the sound file is missing, plays, or pygame raises;
\* the bare except then evaluates an unbound name, and that NameError escapes
alert_user_raises(sound) == sound = "raises"

\* the price-limit block without its test of the time of the last entry
PriceAlertEveryTime(r, res) ==
    Round2(res.avg) >= Round2(r.max_order_price.m) /\ res.count > 0

\* the price-limit block of handle_js_count writes a log entry
PriceAlert(r, res) ==
    /\ Round2(res.avg) >= Round2(r.max_order_price.m)
    /\ res.count > 0
    /\ \/ r.last_price_alert_time = NoTime
       \/ r.last_price_alert_time >= Ticks(PRICE_ALERT_GAP * 1000)

\* MonitorTab.handle_js_count: the tab and the record of what the call did
handle_js_count(r, res, sound, t) ==
    IF ~res.wellformed
    THEN [r |-> r, ev |-> Did("handle_js_count", t)]
    ELSE
    LET price == PriceAlert(r, res)
        r1 == IF price THEN [r EXCEPT !.last_price_alert_time = 0] ELSE r
        e1 == [Did("handle_js_count", t) EXCEPT
                   !.n = res.count, !.avg = res.avg, !.ok = TRUE,
                   !.logs = IF price THEN {"price"} ELSE {}]
    IN  IF res.count >= r1.threshold
        THEN IF alert_user_raises(sound)
             THEN [r |-> r1, ev |-> [e1 EXCEPT !.alert = TRUE, !.exc = TRUE,
                                              !.sound = sound]]
             ELSE [r |-> [pause_monitoring(r1, r1.resume_delay * 60, TRUE)
                            EXCEPT !.empty_scan_count = 0],
                   ev |-> [e1 EXCEPT !.alert = TRUE, !.sound = sound,
                                     !.logs = @ \cup {"order"},
                                     !.pause = r1.resume_delay * 60]]
        ELSE IF res.count = 0 /\ r1.monitoring /\ ~r1.paused
        THEN IF r1.empty_scan_count + 1 >= EMPTY_SCAN_LIMIT
             THEN [r |-> [pause_monitoring(r1, NO_ORDERS_PAUSE, FALSE)
                            EXCEPT !.empty_scan_count = 0],
                   ev |-> [e1 EXCEPT !.logs = @ \cup {"no_orders"},
                                     !.pause = NO_ORDERS_PAUSE]]
             ELSE [r |-> [r1 EXCEPT !.empty_scan_count = @ + 1], ev |-> e1]
        ELSE [r |-> [r1 EXCEPT !.empty_scan_count = 0], ev |-> e1]

----------------------------------------------------------------------------
(* Scan results: None (a failed evaluation) or [count, sum, average]; the   *)
(* average is below the default price limit, or rounds up to it.           *)

PRICE_BELOW == Mils(DEFAULT_MAX_ORDER_PRICE) - 10
PRICE_AT == Mils(DEFAULT_MAX_ORDER_PRICE) - 4

JsResults(prices) ==
    {[wellformed |-> FALSE, count |-> 0, avg |-> 0]}
    \cup {[wellformed |-> TRUE, count |-> 0, avg |-> 0]}
    \cup {[wellformed |-> TRUE, count |-> c, avg |-> a] :
              c \in 1..MaxCount, a \in prices}

Sounds == {"missing", "plays", "raises"}

----------------------------------------------------------------------------
(* Events of a running window *)

Objects == DOMAIN tab
InBar(t) == \E i \in 1..Len(tabs) : tabs[i] = t
Running == phase = "running"
Alive == phase \in {"running", "closed"}

Same == UNCHANGED <<prog, phase, config_file, file_origin, app, tabs, clicks>>

Upd(t, r) == tab' = [tab EXCEPT ![t] = r]

\* removing element i of a sequence
Without(q, i) == [j \in 1..(Len(q) - 1) |-> IF j < i THEN q[j] ELSE q[j + 1]]

\* no timer of any tab is due
NoneDue ==
    \A t \in Objects :
        /\ tab[t].monitor_timer # 0
        /\ tab[t].reload_timer # 0
        /\ \A i \in 1..Len(tab[t].resumes) : tab[t].resumes[i].rem # 0

Aged(r) ==
    [r EXCEPT !.monitor_timer = IF @ = Inactive THEN @ ELSE @ - 1,
              !.reload_timer = @ - 1,
              !.resumes = [i \in 1..Len(@) |-> [@[i] EXCEPT !.rem = @ - 1]],
              !.last_price_alert_time =
                  IF @ = NoTime \/ @ >= Ticks(PRICE_ALERT_GAP * 1000)
                  THEN @ ELSE @ + 1]

\* one minute passes
Tick ==
    /\ Alive /\ NoneDue
    /\ tab' = [t \in Objects |-> Aged(tab[t])]
    /\ ev' = Did("tick", 0)
    /\ Same

\* monitor_timer.timeout -> scan_page
ScanTimer(t) ==
    /\ Alive /\ tab[t].monitor_timer = 0
    /\ tab[t].page_ready => tab[t].js_pending < MaxJs
    /\ LET r == scan_page([tab[t] EXCEPT !.monitor_timer = Ticks(SCAN_INTERVAL)])
       IN  /\ Upd(t, r)
           /\ ev' = [Did("scan_page", t) EXCEPT
                        !.scan = r.js_pending > tab[t].js_pending]
    /\ Same

\* the JavaScript result is delivered to handle_js_count
JsResult(t, prices) ==
    /\ Alive /\ tab[t].js_pending > 0
    /\ \E res \in JsResults(prices), sound \in Sounds :
          LET h == handle_js_count([tab[t] EXCEPT !.js_pending = @ - 1],
                                   res, sound, t)
          IN  /\ Len(h.r.resumes) <= MaxPending
              /\ Upd(t, h.r)
              /\ ev' = h.ev
    /\ Same

\* reload_timer.timeout -> reload_page
ReloadTimer(t) ==
    /\ Alive /\ tab[t].reload_timer = 0
    /\ Upd(t, reload_page([tab[t] EXCEPT !.reload_timer = Ticks(RELOAD_INTERVAL)]))
    /\ ev' = Did("reload_page", t)
    /\ Same

\* a QTimer.singleShot scheduled by pause_monitoring fires
ResumeTimer(t) ==
    /\ Alive
    /\ \E i \in 1..Len(tab[t].resumes) :
          /\ tab[t].resumes[i].rem = 0
          /\ Upd(t, resume_monitoring([tab[t] EXCEPT !.resumes = Without(@, i)]))
    /\ ev' = Did("resume_monitoring", t)
    /\ Same

\* browser.loadFinished -> on_load_finished
LoadFinished(t) ==
    /\ Alive /\ tab[t].loading
    /\ \E ok \in BOOLEAN :
          /\ Upd(t, on_load_finished(tab[t], ok))
          /\ ev' = [Did("on_load_finished", t) EXCEPT !.ok = ok]
    /\ Same

\* the tab's Start/Stop Monitor button
ToggleMonitoring(t) ==
    /\ Running /\ InBar(t)
    /\ Upd(t, toggle_monitoring(tab[t]))
    /\ ev' = Did("toggle_monitoring", t)
    /\ Same

\* MainApp.toggle_all_monitoring: every tab of the bar is stopped when all of
\* them monitor, else every tab that does not monitor is started
toggle_all_monitoring(ts, tb) ==
    LET all_running == \A i \in 1..Len(ts) : tb[ts[i]].monitoring
    IN  [t \in DOMAIN tb |->
            IF (\E i \in 1..Len(ts) : ts[i] = t)
               /\ tb[t].monitoring = all_running
            THEN toggle_monitoring(tb[t]) ELSE tb[t]]

\* the window's Start/Stop All button
ToggleAllMonitoring ==
    /\ Running
    /\ tab' = toggle_all_monitoring(tabs, tab)
    /\ ev' = Did("toggle_all_monitoring", 0)
    /\ Same

\* the tab's Load button
LoadButton(t) ==
    /\ Running /\ InBar(t)
    /\ Upd(t, load_url(tab[t], FALSE))
    /\ ev' = Did("load_url", t)
    /\ Same

\* the tab's threshold dropdown
SetThreshold(t) ==
    /\ Running /\ InBar(t)
    /\ \E v \in 1..MaxThreshold : Upd(t, SetThresholdText(tab[t], v))
    /\ ev' = Did("set_threshold", t)
    /\ Same

\* the tab's delay dropdown
SetDelay(t) ==
    /\ Running /\ InBar(t)
    /\ \E v \in 1..MaxDelay : Upd(t, SetDelayText(tab[t], v))
    /\ ev' = Did("set_delay", t)
    /\ Same

----------------------------------------------------------------------------
(* Spec: one tab of store_alert.py, loaded from a one-record config, with  *)
(* its timers, its page and its user.                                      *)

GoodUrl == Url(TRUE, "a", "fresh")

GoodRecord(threshold, resume_delay) ==
    [ k |-> "obj", name |-> JStr("A"), url |-> GoodUrl,
      threshold |-> JInt(threshold), resume_delay |-> JInt(resume_delay),
      max_order_price |-> Missing ]

Init ==
    /\ prog = "store_alert.py"
    /\ phase = "running"
    /\ \E th \in 1..MaxThreshold, d \in 1..MaxDelay :
          /\ config_file = JList(<<GoodRecord(th, d)>>)
          /\ LET l == load_tabs(init_controls, config_file)
             IN  tabs = l.tabs /\ tab = l.tab
    /\ file_origin = "external"
    /\ app = init_controls
    /\ ev = Did("load_tabs", 0)
    /\ clicks = 0

Next ==
    \/ Tick
    \/ \E t \in Objects : ScanTimer(t)
    \/ \E t \in Objects : JsResult(t, {PRICE_BELOW})
    \/ \E t \in Objects : ReloadTimer(t)
    \/ \E t \in Objects : ResumeTimer(t)
    \/ \E t \in Objects : LoadFinished(t)
    \/ \E t \in Objects : ToggleMonitoring(t)
    \/ ToggleAllMonitoring
    \/ \E t \in Objects : LoadButton(t)
    \/ \E t \in Objects : SetThreshold(t)
    \/ \E t \in Objects : SetDelay(t)

Spec == Init /\ [][Next]_vars

----------------------------------------------------------------------------
(* The window's configuration controls, shutdown and the next start *)

NewScript == "store_alert.py"
OldScript == "store-alert.py"
IsNew == prog = NewScript
IsOld == prog = OldScript

Edit == Running /\ clicks < MaxClicks /\ clicks' = clicks + 1
Kept == UNCHANGED <<prog, phase, config_file, file_origin>>

\* the same update of every tab in the tab bar
InAllTabs(upd) == tab' = [t \in Objects |-> IF InBar(t) THEN upd[t] ELSE tab[t]]

\* MainApp.__init__: init_controls and load_tabs
Startup ==
    /\ IsNew /\ phase = "startup"
    /\ phase' = "running"
    /\ app' = init_controls
    /\ LET l == load_tabs(init_controls, config_file)
       IN  tabs' = l.tabs /\ tab' = l.tab
    /\ ev' = Did("load_tabs", 0)
    /\ UNCHANGED <<prog, config_file, file_origin, clicks>>

\* a tab's threshold dropdown
EditThreshold(t) ==
    /\ Edit /\ InBar(t)
    /\ \E v \in 1..MaxThreshold : Upd(t, SetThresholdText(tab[t], v))
    /\ ev' = Did("set_threshold", t)
    /\ Kept /\ UNCHANGED <<app, tabs>>

\* a tab's delay dropdown
EditDelay(t) ==
    /\ Edit /\ InBar(t)
    /\ \E v \in 1..MaxDelay : Upd(t, SetDelayText(tab[t], v))
    /\ ev' = Did("set_delay", t)
    /\ Kept /\ UNCHANGED <<app, tabs>>

\* MainApp.set_all_thresholds, on a change of the global dropdown
SetAllThresholds ==
    /\ Edit
    /\ \E v \in 1..MaxThreshold :
          /\ v # app.global_threshold_dropdown
          /\ app' = [app EXCEPT !.global_threshold_dropdown = v]
          /\ LET F(r) == SetThresholdText(r, v) IN InAllTabs([t \in Objects |-> F(tab[t])])
    /\ ev' = Did("set_all_thresholds", 0)
    /\ Kept /\ UNCHANGED tabs

\* MainApp.set_all_delays, on a change of the global dropdown
SetAllDelays ==
    /\ Edit
    /\ \E v \in 1..MaxDelay :
          /\ v # app.global_delay_dropdown
          /\ app' = [app EXCEPT !.global_delay_dropdown = v]
          /\ LET F(r) == SetDelayText(r, v) IN InAllTabs([t \in Objects |-> F(tab[t])])
    /\ ev' = Did("set_all_delays", 0)
    /\ Kept /\ UNCHANGED tabs

\* the items of the global price dropdown the user picks
PRICE_ITEM == 10
PriceItems == {PRICE_ITEM}

\* MainApp.set_all_price_limits, on a change of the global dropdown
SetAllPriceLimits ==
    /\ IsNew /\ Edit
    /\ \E v \in PriceItems :
          /\ v # app.global_price_limit
          /\ app' = [app EXCEPT !.global_price_limit = v]
          /\ LET F(r) == [r EXCEPT !.max_order_price = PyFloat(JInt(v))]
             IN  InAllTabs([t \in Objects |-> F(tab[t])])
    /\ ev' = Did("set_all_price_limits", 0)
    /\ Kept /\ UNCHANGED tabs

\* names and URLs the user types
TypedNames == {"B"}
TypedUrls == {Url(FALSE, "c", "none")}

\* MainApp.context_menu: Rename
Rename(t) ==
    /\ Edit /\ InBar(t)
    /\ \E name \in TypedNames : Upd(t, [tab[t] EXCEPT !.tab_name = name])
    /\ ev' = Did("rename", t)
    /\ Kept /\ UNCHANGED <<app, tabs>>

\* MainApp.context_menu: Close
CloseTab(t) ==
    /\ Edit /\ InBar(t)
    /\ tabs' = SelectSeq(tabs, LAMBDA x : x # t)
    /\ ev' = Did("close_tab", t)
    /\ Kept /\ UNCHANGED <<app, tab>>

\* MainApp.context_menu: Add Tab
AddTab ==
    /\ IsNew /\ Edit /\ Cardinality(Objects) < MaxTabs
    /\ LET l == Appended([tabs |-> tabs, tab |-> tab],
                         add_tab(app, TabLabel(Len(tabs) + 1), EmptyUrl,
                                 DEFAULT_THRESHOLD, DEFAULT_RESUME_DELAY,
                                 JInt(DEFAULT_MAX_ORDER_PRICE), FALSE))
       IN  tabs' = l.tabs /\ tab' = l.tab
    /\ ev' = Did("add_tab", 0)
    /\ Kept /\ UNCHANGED app

\* the user drags a tab of the movable tab bar to another place
MoveTab ==
    /\ Edit
    /\ \E i, j \in 1..Len(tabs) :
          /\ i < j
          /\ tabs' = [tabs EXCEPT ![i] = tabs[j], ![j] = tabs[i]]
    /\ ev' = Did("move_tab", 0)
    /\ Kept /\ UNCHANGED <<app, tab>>

\* the user types into url_input, and textChanged sets self.url
TypeUrl(t) ==
    /\ Edit /\ InBar(t)
    /\ \E u \in TypedUrls : Upd(t, [tab[t] EXCEPT !.url_input = u, !.url = u])
    /\ ev' = Did("type_url", t)
    /\ Kept /\ UNCHANGED <<app, tabs>>

\* the tab's Load button
ClickLoad(t) ==
    /\ Edit /\ InBar(t)
    /\ Upd(t, load_url(tab[t], FALSE))
    /\ ev' = Did("load_url", t)
    /\ Kept /\ UNCHANGED <<app, tabs>>

\* MainApp.load_all_tabs
LoadAll ==
    /\ IsNew /\ Edit
    /\ InAllTabs([t \in Objects |-> reload_page(tab[t])])
    /\ ev' = Did("load_all_tabs", 0)
    /\ Kept /\ UNCHANGED <<app, tabs>>

\* MainApp.closeEvent
closeEvent ==
    /\ IsNew /\ Running
    /\ config_file' = SavedList(tabs, tab)
    /\ file_origin' = "closeEvent"
    /\ phase' = "closed"
    /\ ev' = [Did("closeEvent", 0) EXCEPT !.wrote = TRUE]
    /\ UNCHANGED <<prog, app, tabs, tab, clicks>>

\* the program is started again: a new process that has built nothing yet
Launch ==
    /\ phase = "closed"
    /\ phase' = "startup"
    /\ app' = init_controls
    /\ tabs' = << >> /\ tab' = << >>
    /\ ev' = Did("launch", 0)
    /\ UNCHANGED <<prog, config_file, file_origin, clicks>>

\* config records: a complete record, and records that differ from it in one
\* field (missing, or a value of another type or range)
BaseRecord ==
    [ k |-> "obj", name |-> JStr("A"), url |-> Url(TRUE, "b", "stale"),
      threshold |-> JInt(2), resume_delay |-> JInt(3),
      max_order_price |-> JFloat(99990) ]

CfgRecords ==
    {BaseRecord, JInt(7)}
    \cup {[BaseRecord EXCEPT !.name = Missing]}
    \cup {[BaseRecord EXCEPT !.url = u] : u \in {Missing, Url(FALSE, "a", "none")}}
    \cup {[BaseRecord EXCEPT !.threshold = v] :
              v \in {Missing, JInt(0), JInt(12), JFloat(2500), JStr("2"),
                     JStr("x"), JNull}}
    \cup {[BaseRecord EXCEPT !.resume_delay = v] : v \in {Missing, JStr("x")}}
    \cup {[BaseRecord EXCEPT !.max_order_price = v] : v \in {Missing, JNull}}

RECURSIVE ListsUpTo(_, _)
ListsUpTo(S, n) ==
    IF n = 0 THEN {<< >>}
    ELSE LET shorter == ListsUpTo(S, n - 1)
         IN  shorter \cup {Append(l, x) : l \in shorter, x \in S}

ConfigFiles ==
    {Absent, Garbage, NotAList} \cup {JList(l) : l \in ListsUpTo(CfgRecords, MaxRecords)}

InitCfg ==
    /\ prog = NewScript
    /\ phase = "startup"
    /\ config_file \in ConfigFiles
    /\ file_origin = "external"
    /\ app = init_controls
    /\ tabs = << >> /\ tab = << >>
    /\ ev = NoEv
    /\ clicks = 0

NextCfg ==
    \/ Startup
    \/ \E t \in Objects : EditThreshold(t)
    \/ \E t \in Objects : EditDelay(t)
    \/ \E t \in Objects : Rename(t)
    \/ \E t \in Objects : CloseTab(t)
    \/ \E t \in Objects : TypeUrl(t)
    \/ \E t \in Objects : ClickLoad(t)
    \/ SetAllThresholds
    \/ SetAllDelays
    \/ SetAllPriceLimits
    \/ AddTab
    \/ MoveTab
    \/ LoadAll
    \/ closeEvent
    \/ Launch

SpecCfg == InitCfg /\ [][NextCfg]_vars

----------------------------------------------------------------------------
(* store-alert.py, the earlier revision: its configuration and its file *)

OLD_GLOBAL_DELAY == 1

\* MainApp.setup_global_controls
old_init_controls ==
    [ global_threshold_dropdown |-> GLOBAL_THRESHOLD,
      global_delay_dropdown |-> OLD_GLOBAL_DELAY,
      global_price_limit |-> GLOBAL_PRICE_LIMIT ]

\* _inject_date_range's second result: the URL it returns differs from its input
WasModified(u) == InjectDateRange(u) # u

\* MainApp.add_tab and MonitorTab.__init__
old_add_tab(name, url, threshold, resume_delay, auto_monitor) ==
    LET u == IF url # EmptyUrl THEN InjectDateRange(url) ELSE url
    IN  [MonitorTab(name, u, threshold, resume_delay,
                    JInt(DEFAULT_MAX_ORDER_PRICE))
            EXCEPT !.monitoring = auto_monitor]

\* MonitorTab.get_state
old_get_state(r) ==
    [ k |-> "obj",
      name |-> JStr(r.tab_name),
      url |-> r.url_input,
      threshold |-> PyNum(r.threshold),
      resume_delay |-> PyNum(r.resume_delay),
      auto_monitor |-> FALSE ]

\* the list save_tabs dumps
old_SavedList(ts, tb) == JList([i \in 1..Len(ts) |-> old_get_state(tb[ts[i]])])

\* the loop of load_tabs: every record gets the fresh date range, a tab and a load
RECURSIVE old_LoadRecords(_, _, _)
old_LoadRecords(acc, recs, i) ==
    IF i > Len(recs) THEN acc
    ELSE LET d == recs[i]
             t == old_add_tab(d.name.s, InjectDateRange(d.url),
                              PyInt(d.threshold), PyInt(d.resume_delay),
                              d.auto_monitor)
         IN  old_LoadRecords(Appended(acc, load_url(t, FALSE)), recs, i + 1)

\* load_tabs saving after every load
old_modified_always(recs) == TRUE

\* load_tabs' flag modified: some record's URL was changed by the injection
old_modified(recs) == \E i \in 1..Len(recs) : WasModified(recs[i].url)

\* MainApp.__init__ with load_tabs: json.load is not guarded, so a file that is
\* no JSON list ends the start with the exception
old_Startup ==
    /\ IsOld /\ phase = "startup"
    /\ app' = old_init_controls
    /\ IF config_file.k = "list"
       THEN LET l == old_LoadRecords(NoTabs, config_file.recs, 1)
                save == old_modified(config_file.recs)
            IN  /\ tabs' = l.tabs /\ tab' = l.tab
                /\ phase' = "running"
                /\ config_file' = IF save THEN old_SavedList(l.tabs, l.tab)
                                  ELSE config_file
                /\ file_origin' = IF save THEN "load_tabs" ELSE file_origin
                /\ ev' = [Did("load_tabs", 0) EXCEPT !.wrote = save]
       ELSE IF config_file.k = "absent"
       THEN LET l == Appended(NoTabs,
                        old_add_tab(TabLabel(1), EmptyUrl, DEFAULT_THRESHOLD,
                                    DEFAULT_RESUME_DELAY, FALSE))
            IN  /\ tabs' = l.tabs /\ tab' = l.tab
                /\ phase' = "running"
                /\ ev' = Did("load_tabs", 0)
                /\ UNCHANGED <<config_file, file_origin>>
       ELSE /\ phase' = "crashed"
            /\ ev' = [Did("load_tabs", 0) EXCEPT !.exc = TRUE]
            /\ UNCHANGED <<config_file, file_origin, tabs, tab>>
    /\ UNCHANGED <<prog, clicks>>

\* MainApp.show_context_menu: Add Tab
old_AddTab ==
    /\ IsOld /\ Edit /\ Cardinality(Objects) < MaxTabs
    /\ LET l == Appended([tabs |-> tabs, tab |-> tab],
                         old_add_tab(TabLabel(Len(tabs) + 1), EmptyUrl,
                                     DEFAULT_THRESHOLD, DEFAULT_RESUME_DELAY, FALSE))
       IN  tabs' = l.tabs /\ tab' = l.tab
    /\ ev' = Did("add_tab", 0)
    /\ Kept /\ UNCHANGED app

\* MonitorTab.reload_page of store-alert.py: the date range goes into self.url
old_reload_page(r) ==
    LET u == InjectDateRange(r.url)
    IN  [r EXCEPT !.page_ready = FALSE,
                  !.monitor_timer = IF r.monitoring THEN Inactive ELSE @,
                  !.url = u, !.url_input = u, !.loading = TRUE]

\* MainApp.reload_all_tabs
old_ReloadAll ==
    /\ IsOld /\ Edit
    /\ InAllTabs([t \in Objects |-> old_reload_page(tab[t])])
    /\ ev' = Did("reload_all_tabs", 0)
    /\ Kept /\ UNCHANGED <<app, tabs>>

\* MonitorTab.stop_monitoring
old_stop_monitoring(r) ==
    [r EXCEPT !.monitoring = FALSE, !.paused = FALSE, !.monitor_timer = Inactive]

\* MainApp.closeEvent: every tab is stopped, then save_tabs
old_closeEvent ==
    /\ IsOld /\ Running
    /\ InAllTabs([t \in Objects |-> old_stop_monitoring(tab[t])])
    /\ config_file' = old_SavedList(tabs, tab)
    /\ file_origin' = "closeEvent"
    /\ phase' = "closed"
    /\ ev' = [Did("closeEvent", 0) EXCEPT !.wrote = TRUE]
    /\ UNCHANGED <<prog, app, tabs, clicks>>

\* records store-alert.py writes and reads
OldRecords ==
    {[ k |-> "obj", name |-> JStr("A"), url |-> u, threshold |-> JInt(th),
       resume_delay |-> JInt(1), auto_monitor |-> FALSE ] :
         u \in {Url(TRUE, "a", "fresh"), Url(TRUE, "b", "stale"), EmptyUrl},
         th \in {2, 12}}

OldConfigFiles ==
    {Absent, Garbage} \cup {JList(l) : l \in ListsUpTo(OldRecords, MaxRecords)}

InitOld ==
    /\ prog = OldScript
    /\ phase = "startup"
    /\ config_file \in OldConfigFiles
    /\ file_origin = "external"
    /\ app = old_init_controls
    /\ tabs = << >> /\ tab = << >>
    /\ ev = NoEv
    /\ clicks = 0

\* both scripts, each from its start
InitFiles == InitCfg \/ InitOld

NextFiles ==
    \/ Startup
    \/ old_Startup
    \/ \E t \in Objects : EditThreshold(t)
    \/ \E t \in Objects : EditDelay(t)
    \/ \E t \in Objects : Rename(t)
    \/ \E t \in Objects : CloseTab(t)
    \/ \E t \in Objects : TypeUrl(t)
    \/ \E t \in Objects : ClickLoad(t)
    \/ SetAllThresholds
    \/ SetAllDelays
    \/ SetAllPriceLimits
    \/ AddTab
    \/ old_AddTab
    \/ MoveTab
    \/ LoadAll
    \/ old_ReloadAll
    \/ closeEvent
    \/ old_closeEvent
    \/ Launch

SpecFiles == InitFiles /\ [][NextFiles]_vars

----------------------------------------------------------------------------
(* store-alert.py and bk.py: the polling state machine of the earlier       *)
(* revisions.  bk.py has no page_ready flag and no loadFinished handler.     *)

BkScript == "bk.py"
IsBk == prog = BkScript

OLD_SCAN_INTERVAL == 15000
OLD_RELOAD_INTERVAL == 180000
MAX_EMPTY_SCANS == 10
PAUSE_ON_EMPTY_SECONDS == 180
BK_SCAN_INTERVAL == 5000
BK_RELOAD_INTERVAL == 120000

\* the interval the running script gives its scan timer and its reload timer
old_scan_interval(p) == IF p = BkScript THEN BK_SCAN_INTERVAL ELSE OLD_SCAN_INTERVAL
old_reload_interval(p) ==
    IF p = BkScript THEN BK_RELOAD_INTERVAL ELSE OLD_RELOAD_INTERVAL

\* MonitorTab.start_monitoring
old_start_monitoring(p, r) ==
    [r EXCEPT !.monitoring = TRUE, !.paused = FALSE,
              !.monitor_timer = Ticks(old_scan_interval(p))]

\* MonitorTab.toggle_monitoring
old_toggle_monitoring(p, r) ==
    IF r.monitoring THEN old_stop_monitoring(r) ELSE old_start_monitoring(p, r)

\* MonitorTab.pause_monitoring
old_pause_monitoring(r, seconds, alert) ==
    [r EXCEPT !.monitor_timer = Inactive,
              !.paused = TRUE,
              !.resumes = Append(@, [rem |-> Ticks(seconds * 1000),
                                     alert |-> alert])]

\* MonitorTab.resume_monitoring: the scan timer is started whatever the
\* monitoring flag says
old_resume_monitoring(p, r) ==
    [r EXCEPT !.paused = FALSE, !.monitor_timer = Ticks(old_scan_interval(p))]

\* MonitorTab.check_page: toPlainText is asked for the page text; store-alert.py
\* skips the scan of a page that is not ready
old_check_page(p, r) ==
    IF p = BkScript \/ r.page_ready THEN [r EXCEPT !.js_pending = @ + 1] ELSE r

\* process_text counting every occurrence of the marker
process_text_count_all(occurrences) == occurrences

\* process_text: count = text.count("ACCEPTED") - 1
process_text_count(occurrences) == occurrences - 1

\* MonitorTab.process_text on a page text with that many occurrences of
\* "ACCEPTED": the tab and the record of what the call did
process_text(r, occurrences, t) ==
    LET count == process_text_count(occurrences)
        e1 == [Did("process_text", t) EXCEPT !.n = occurrences, !.ok = TRUE]
    IN  IF count >= r.threshold
        THEN [r |-> old_pause_monitoring(r, r.resume_delay * 60, TRUE),
              ev |-> [e1 EXCEPT !.alert = TRUE, !.pause = r.resume_delay * 60]]
        ELSE IF count = 0
        THEN IF r.empty_scan_count + 1 >= MAX_EMPTY_SCANS
             THEN [r |-> [old_pause_monitoring(r, PAUSE_ON_EMPTY_SECONDS, FALSE)
                            EXCEPT !.empty_scan_count = 0],
                   ev |-> [e1 EXCEPT !.pause = PAUSE_ON_EMPTY_SECONDS]]
             ELSE [r |-> [r EXCEPT !.empty_scan_count = @ + 1], ev |-> e1]
        ELSE [r |-> [r EXCEPT !.empty_scan_count = 0], ev |-> e1]

\* MonitorTab.load_url of store-alert.py; bk.py's sets no page_ready
old_load_url(p, r) ==
    LET u == WithScheme(r.url_input)
    IN  IF p = BkScript THEN [r EXCEPT !.url = u]
        ELSE [r EXCEPT !.url = u, !.url_input = u, !.page_ready = FALSE,
                       !.loading = TRUE]

\* MonitorTab.reload_page of bk.py: browser.reload(), the scan timer untouched
bk_reload_page(r) == r

\* numbers of occurrences of "ACCEPTED" a page text holds
Occurrences == 0..(MaxCount + 1)

\* monitor_timer.timeout -> check_page
old_CheckTimer(t) ==
    /\ Alive /\ tab[t].monitor_timer = 0
    /\ (IsBk \/ tab[t].page_ready) => tab[t].js_pending < MaxJs
    /\ LET r == old_check_page(prog,
                    [tab[t] EXCEPT !.monitor_timer = Ticks(old_scan_interval(prog))])
       IN  /\ Upd(t, r)
           /\ ev' = [Did("check_page", t) EXCEPT
                        !.scan = r.js_pending > tab[t].js_pending]
    /\ Same

\* the page text is delivered to process_text
old_TextResult(t) ==
    /\ Alive /\ tab[t].js_pending > 0
    /\ \E occurrences \in Occurrences :
          LET h == process_text([tab[t] EXCEPT !.js_pending = @ - 1],
                                occurrences, t)
          IN  /\ Len(h.r.resumes) <= MaxPending
              /\ Upd(t, h.r)
              /\ ev' = h.ev
    /\ Same

\* reload_timer.timeout -> reload_page
old_ReloadTimer(t) ==
    /\ Alive /\ tab[t].reload_timer = 0
    /\ LET r == [tab[t] EXCEPT !.reload_timer = Ticks(old_reload_interval(prog))]
       IN  Upd(t, IF IsBk THEN bk_reload_page(r) ELSE old_reload_page(r))
    /\ ev' = Did("reload_page", t)
    /\ Same

\* a QTimer.singleShot scheduled by pause_monitoring fires
old_ResumeTimer(t) ==
    /\ Alive
    /\ \E i \in 1..Len(tab[t].resumes) :
          /\ tab[t].resumes[i].rem = 0
          /\ Upd(t, old_resume_monitoring(prog,
                        [tab[t] EXCEPT !.resumes = Without(@, i)]))
    /\ ev' = Did("resume_monitoring", t)
    /\ Same

\* MonitorTab.on_load_finished of store-alert.py
old_on_load_finished(r, success) ==
    [r EXCEPT !.page_ready = success,
              !.loading = FALSE,
              !.monitor_timer =
                  IF success /\ r.monitoring /\ r.monitor_timer = Inactive
                     /\ ~r.paused
                  THEN Ticks(OLD_SCAN_INTERVAL) ELSE @]

\* browser.loadFinished -> on_load_finished (store-alert.py)
old_LoadFinished(t) ==
    /\ Alive /\ IsOld /\ tab[t].loading
    /\ \E ok \in BOOLEAN :
          /\ Upd(t, old_on_load_finished(tab[t], ok))
          /\ ev' = [Did("on_load_finished", t) EXCEPT !.ok = ok]
    /\ Same

\* the tab's Start/Stop Monitor button
old_ToggleMonitoring(t) ==
    /\ Running /\ InBar(t)
    /\ Upd(t, old_toggle_monitoring(prog, tab[t]))
    /\ ev' = Did(IF tab[t].monitoring THEN "stop_monitoring"
                 ELSE "start_monitoring", t)
    /\ Same

\* the tab's Load button
old_LoadButton(t) ==
    /\ Running /\ InBar(t)
    /\ Upd(t, old_load_url(prog, tab[t]))
    /\ ev' = Did("load_url", t)
    /\ Same

\* one tab as the start of store-alert.py or bk.py leaves it
InitOldPoll ==
    /\ prog \in {OldScript, BkScript}
    /\ phase = "running"
    /\ \E th \in 1..MaxThreshold, d \in 1..MaxDelay :
          LET r == [old_add_tab("A", GoodUrl, th, d, FALSE)
                       EXCEPT !.reload_timer = Ticks(old_reload_interval(prog))]
          IN  tab = <<IF IsBk THEN r ELSE old_load_url(prog, r)>>
    /\ tabs = <<1>>
    /\ config_file = Absent
    /\ file_origin = "external"
    /\ app = old_init_controls
    /\ ev = Did("load_tabs", 0)
    /\ clicks = 0

NextOldPoll ==
    \/ Tick
    \/ \E t \in Objects : old_CheckTimer(t)
    \/ \E t \in Objects : old_TextResult(t)
    \/ \E t \in Objects : old_ReloadTimer(t)
    \/ \E t \in Objects : old_ResumeTimer(t)
    \/ \E t \in Objects : old_LoadFinished(t)
    \/ \E t \in Objects : old_ToggleMonitoring(t)
    \/ \E t \in Objects : old_LoadButton(t)

SpecOldPoll == InitOldPoll /\ [][NextOldPoll]_vars

----------------------------------------------------------------------------
(* SpecWindow: the tab of Spec in its window: the user also types a URL,   *)
(* closes the tab through the context menu, and closes the window; the    *)
(* dropdowns stay as the config set them.  The process and its timers      *)
(* outlive the window (setQuitOnLastWindowClosed).                         *)

NextWindow ==
    \/ Tick
    \/ \E t \in Objects : ScanTimer(t)
    \/ \E t \in Objects : JsResult(t, {PRICE_BELOW})
    \/ \E t \in Objects : ReloadTimer(t)
    \/ \E t \in Objects : ResumeTimer(t)
    \/ \E t \in Objects : LoadFinished(t)
    \/ \E t \in Objects : ToggleMonitoring(t)
    \/ \E t \in Objects : LoadButton(t)
    \/ \E t \in Objects : TypeUrl(t)
    \/ \E t \in Objects : CloseTab(t)
    \/ closeEvent

SpecWindow == Init /\ [][NextWindow]_vars

----------------------------------------------------------------------------
(* SpecPrice: the tab of Spec with scan results whose average is below the  *)
(* price limit or rounds up to it, and the global price limit dropdown.     *)
(* Time is the clock datetime.now() reads.                                  *)

NextPrice ==
    \/ Tick
    \/ \E t \in Objects : ScanTimer(t)
    \/ \E t \in Objects : JsResult(t, {PRICE_BELOW, PRICE_AT})
    \/ \E t \in Objects : ReloadTimer(t)
    \/ \E t \in Objects : ResumeTimer(t)
    \/ \E t \in Objects : LoadFinished(t)
    \/ \E t \in Objects : ToggleMonitoring(t)
    \/ SetAllPriceLimits

SpecPrice == Init /\ [][NextPrice]_vars

\* the tabs of Spec
LiveTabs == {1}

\* timers fire, posted callbacks are delivered and time passes
Fairness ==
    /\ WF_vars(Tick)
    /\ \A t \in LiveTabs :
          /\ WF_vars(ScanTimer(t))
          /\ WF_vars(ReloadTimer(t))
          /\ WF_vars(ResumeTimer(t))
          /\ WF_vars(JsResult(t, {PRICE_BELOW}))

SpecLive == Spec /\ Fairness

----------------------------------------------------------------------------
(* Claims about the polling state machine *)

Handled(t) == ev.op = "handle_js_count" /\ ev.t = t /\ ev.ok
ScanStarted(t) == ev.op = "scan_page" /\ ev.t = t /\ ev.scan
TimerActive(t) == tab[t].monitor_timer # Inactive

\* the threshold alert was raised and the tab entered its resume_delay pause
AlertedAndPaused(t) ==
    /\ ev.alert /\ "order" \in ev.logs
    /\ ev.pause = tab[t].resume_delay * 60
    /\ tab[t].paused /\ ~TimerActive(t)

\* C1: a well-formed scan result raises the threshold alert and pauses the
\* tab for resume_delay minutes if and only if the count is >= the threshold.
C1_AlertIffThreshold ==
    \A t \in Objects :
        Handled(t) => (AlertedAndPaused(t) <=> ev.n >= tab[t].threshold)

\* a threshold pause of tab t began less than its resume delay ago
InAlertPause(t) ==
    \E i \in 1..Len(tab[t].resumes) :
        tab[t].resumes[i].alert /\ tab[t].resumes[i].rem > 0

\* C2: until resume_delay minutes have passed since a threshold pause began,
\* the tab stays paused and starts no scan.
C2_PauseLastsResumeDelay ==
    \A t \in Objects : InAlertPause(t) => (tab[t].paused /\ ~ScanStarted(t))

\* a resume callback that has just run left the tab unpaused, with its scan
\* timer running when the tab is monitoring
C3_ResumeRestartsTimer ==
    \A t \in Objects :
        (ev.op = "resume_monitoring" /\ ev.t = t) =>
            (~tab[t].paused /\ (tab[t].monitoring => TimerActive(t)))

IsPaused(t) == t \in Objects /\ tab[t].paused
Resumed(t) == ev.op = "resume_monitoring" /\ ev.t = t /\ ~IsPaused(t)

\* C3: every pause ends: a paused tab's resume callback eventually fires and
\* clears paused, and the scan timer runs again when the tab is still
\* monitoring (timers and callbacks that are due do fire).
C3_EveryPauseEnds ==
    /\ []C3_ResumeRestartsTimer
    /\ \A t \in LiveTabs : IsPaused(t) ~> Resumed(t)

\* a resume callback has ended a pause of a monitoring tab
C3_Witness ==
    \E t \in Objects :
        /\ ev.op = "resume_monitoring" /\ ev.t = t
        /\ tab[t].monitoring /\ TimerActive(t) /\ ~tab[t].paused

\* C9: when the alert sound cannot be played, no exception escapes
\* alert_user: the order log entry is written and the tab is paused.
C9_SoundFailureIsCaught ==
    \A t \in Objects :
        (Handled(t) /\ ev.alert /\ ev.sound \in {"missing", "raises"}) =>
            (~ev.exc /\ "order" \in ev.logs /\ tab[t].paused)

LoadFailed(e, t) == e.op = "on_load_finished" /\ e.t = t /\ ~e.ok
LoadSucceeded(e, t) == e.op = "on_load_finished" /\ e.t = t /\ e.ok

\* a failed load leaves the page not ready and raises nothing; a scan starts
\* on a ready page only
C10_State ==
    \A t \in Objects :
        /\ LoadFailed(ev, t) => (~tab[t].page_ready /\ ~ev.exc)
        /\ ScanStarted(t) => tab[t].page_ready

\* only a successful load makes the page ready; a failed load keeps
\* monitoring, paused, threshold and resume_delay
C10_Step ==
    \A t \in Objects :
        /\ (~tab[t].page_ready /\ tab'[t].page_ready) => LoadSucceeded(ev', t)
        /\ (LoadFailed(ev', t) /\ tab'[t] # tab[t]) =>
              /\ tab'[t].monitoring = tab[t].monitoring
              /\ tab'[t].paused = tab[t].paused
              /\ tab'[t].threshold = tab[t].threshold
              /\ tab'[t].resume_delay = tab[t].resume_delay

\* C10: after a failed load the page is not ready and no scan starts until a
\* load succeeds; the failure raises nothing and leaves monitoring, paused,
\* threshold and resume_delay as they were.
C10_FailedLoadBlocksScans == []C10_State /\ [][C10_Step]_vars

\* the scan timer fired on a page whose load failed, and no scan started
C10_Witness ==
    \E t \in Objects :
        /\ ev.op = "scan_page" /\ ev.t = t /\ ~ev.scan
        /\ tab[t].monitoring /\ ~tab[t].page_ready /\ ~tab[t].loading

----------------------------------------------------------------------------
(* Claims about the configuration and its file *)

\* C4: every tab's threshold is an integer >= 1 in every reachable state,
\* also for tabs rebuilt from tabs_config.json.
C4_ThresholdAtLeastOne == \A t \in Objects : tab[t].threshold >= 1

Saved == ev.op = "closeEvent" /\ config_file.k = "list"

\* C5: the list written at window close has one record per open tab, in
\* tab-bar order, holding the tab's current name, the URL of the page it
\* monitors (last loaded through Load, else the config's), threshold, resume
\* delay and price limit.
C5_SavedListIsCurrentConfiguration ==
    ev.op = "closeEvent" =>
        /\ config_file.k = "list"
        /\ Len(config_file.recs) = Len(tabs)
        /\ \A i \in 1..Len(tabs) :
              LET rec == config_file.recs[i]
                  r == tab[tabs[i]]
              IN  /\ rec.name = JStr(r.tab_name)
                  /\ rec.url.host = r.loaded_url.host
                  /\ NumEq(rec.threshold, JInt(r.threshold))
                  /\ NumEq(rec.resume_delay, JInt(r.resume_delay))
                  /\ NumEq(rec.max_order_price, r.max_order_price)

\* Python's == on two tab records
SameRecord(a, b) ==
    /\ a.name = b.name
    /\ a.url = b.url
    /\ NumEq(a.threshold, b.threshold)
    /\ NumEq(a.resume_delay, b.resume_delay)
    /\ NumEq(a.max_order_price, b.max_order_price)

Reloaded == ev.op = "load_tabs" /\ file_origin = "closeEvent"

\* C6: load_tabs rebuilds, from a list closeEvent wrote, as many tabs in the
\* same order, and each rebuilt tab's get_state equals its record.
C6_SaveLoadRoundTrip ==
    Reloaded =>
        /\ Len(tabs) = Len(config_file.recs)
        /\ \A i \in 1..Len(tabs) :
              SameRecord(get_state(tab[tabs[i]]), config_file.recs[i])

\* two tabs are rebuilt, the first renamed and re-thresholded in the run
\* before, the second with a threshold no dropdown item equals
C6_Witness ==
    /\ Reloaded /\ Len(tabs) = 2
    /\ tab[tabs[1]].tab_name = "B"
    /\ tab[tabs[2]].threshold \notin ThresholdItems

\* C8: with tabs_config.json absent or unreadable as JSON, load_tabs raises
\* nothing and startup ends with exactly one tab, named "Tab 1".
C8_UnreadableConfigFallsBack ==
    (ev.op = "load_tabs" /\ config_file.k \in {"absent", "garbage"}) =>
        /\ ~ev.exc
        /\ Len(tabs) = 1 /\ Objects = {tabs[1]}
        /\ tab[tabs[1]].tab_name = TabLabel(1)

\* startup on an unparsable file has ended with the one default tab
C8_Witness ==
    /\ ev.op = "load_tabs" /\ config_file = Garbage
    /\ Len(tabs) = 1 /\ tab[tabs[1]].threshold = GLOBAL_THRESHOLD

\* C7 as stated: tabs_config.json is written by the window-close handler only,
\* in store_alert.py and in store-alert.py.
C7_OnlyCloseWrites == ev.wrote => ev.op = "closeEvent"

\* the step changed the file, or a handler that writes it ran
Wrote == config_file' # config_file \/ (ev'.wrote /\ ev' # ev)

\* a step that writes the file is a window close, or the startup load_tabs of
\* store-alert.py on a list in which the injection changes some record's URL
C7_Step ==
    Wrote =>
        \/ ev'.op = "closeEvent" /\ phase = "running"
        \/ /\ ev'.op = "load_tabs" /\ IsOld /\ phase = "startup"
           /\ config_file.k = "list"
           /\ \E i \in 1..Len(config_file.recs) :
                 InjectDateRange(config_file.recs[i].url) # config_file.recs[i].url

\* C7, amended: store_alert.py writes the file at window close only;
\* store-alert.py writes it at window close and in its startup load_tabs, when
\* the date-range injection changed a loaded record's URL; nothing else writes.
C7_WritersOfConfigFile == [][C7_Step]_vars

\* store-alert.py has rewritten the file while starting
C7_Witness ==
    /\ IsOld /\ ev.op = "load_tabs" /\ ev.wrote /\ file_origin = "load_tabs"
    /\ Len(tabs) = 2

----------------------------------------------------------------------------
(* Claims about the polling of store-alert.py and bk.py *)

\* process_text notified and began the resume_delay pause of tab t
Notified(t) ==
    /\ ev.alert /\ ev.pause = tab[t].resume_delay * 60
    /\ tab[t].paused /\ tab[t].monitor_timer = Inactive

\* C11 as stated: process_text notifies and pauses exactly when the number of
\* occurrences of "ACCEPTED" in the page text is >= the threshold.
C11_NotifyIffOccurrences ==
    \A t \in Objects :
        (ev.op = "process_text" /\ ev.t = t) =>
            (Notified(t) <=> ev.n >= tab[t].threshold)

\* C11, amended: process_text notifies and pauses exactly when the number of
\* occurrences of "ACCEPTED" minus one is >= the threshold.
C11_NotifyIffOccurrencesLessOne ==
    \A t \in Objects :
        (ev.op = "process_text" /\ ev.t = t) =>
            (Notified(t) <=> ev.n - 1 >= tab[t].threshold)

\* a text with threshold + 1 occurrences has raised the notification
C11_Witness ==
    \E t \in Objects :
        /\ ev.op = "process_text" /\ ev.t = t /\ Notified(t)
        /\ ev.n = tab[t].threshold + 1

\* C15: while the monitoring flag is off (after stop_monitoring, before the
\* next start_monitoring) the scan timer is inactive and no scan runs, also
\* after a resume callback of an earlier pause has fired.
C15_StoppedStaysStopped ==
    \A t \in Objects :
        ~tab[t].monitoring =>
            /\ tab[t].monitor_timer = Inactive
            /\ ~(ev.op = "check_page" /\ ev.t = t /\ ev.scan)

----------------------------------------------------------------------------
(* Further claims about the polling state machine of store_alert.py *)

\* C12: a tab has at most one pending delayed resume callback: no pause
\* begins while the callback of an earlier pause has not fired.
C12_OnePendingResume == \A t \in Objects : Len(tab[t].resumes) <= 1

\* the reload timer is running
ReloadActive(t) == tab[t].reload_timer \in 0..Ticks(RELOAD_INTERVAL)

\* the reload timer always runs, and a successful load of a monitoring tab
\* that is not paused leaves the scan timer running
C13_State ==
    \A t \in Objects :
        /\ ReloadActive(t)
        /\ (LoadSucceeded(ev, t) /\ tab[t].monitoring /\ ~tab[t].paused)
              => TimerActive(t)

\* the reload timer is never stopped or restarted: it only counts down, and
\* is set to a full interval again by its own timeout
C13_Step ==
    \A t \in Objects :
        \/ tab'[t].reload_timer = tab[t].reload_timer
        \/ ev'.op = "tick" /\ tab'[t].reload_timer = tab[t].reload_timer - 1
        \/ /\ ev'.op = "reload_page" /\ ev'.t = t /\ tab[t].reload_timer = 0
           /\ tab'[t].reload_timer = Ticks(RELOAD_INTERVAL)

LoadAttempted(t) == ev.op \in {"reload_page", "load_url"} /\ ev.t = t

\* C13: the reload timer runs from the tab's creation and no operation stops
\* it, so a failed load is followed by another load of the tab within one
\* reload interval, and a successful load of a monitoring, unpaused tab
\* leaves the scan timer running.
C13_FailedLoadIsRetried ==
    /\ []C13_State
    /\ [][C13_Step]_vars
    /\ \A t \in LiveTabs : LoadFailed(ev, t) ~> LoadAttempted(t)

\* the load that a reload of a monitoring tab began has failed: the scan
\* timer is stopped and the reload timer is counting down to the next attempt
C13_Witness ==
    \E t \in Objects :
        /\ LoadFailed(ev, t) /\ tab[t].monitoring /\ ~tab[t].paused
        /\ ~TimerActive(t) /\ ReloadActive(t)
        /\ tab[t].reload_timer < Ticks(RELOAD_INTERVAL)

\* C14: reload_page (the periodic reload and Load All) loads the URL the tab
\* loaded last through its Load button, or the config's, with only the date
\* range refreshed.
C14_ReloadsMonitoredPage ==
    ev.op \in {"reload_page", "load_all_tabs"} =>
        \A t \in Objects :
            (InBar(t) /\ (ev.op = "reload_page" => ev.t = t)) =>
                tab[t].url = InjectDateRange(tab[t].loaded_url)

\* C16: handle_js_count raises no threshold alert for a tab whose monitoring
\* flag is off.
C16_NoAlertWhenNotMonitoring ==
    \A t \in Objects : (Handled(t) /\ ev.alert) => tab[t].monitoring

\* C17: between event handlers a paused tab has an inactive scan timer.
C17_PausedTimerInactive ==
    \A t \in Objects : tab[t].paused => ~TimerActive(t)

\* C18: between event handlers a tab's scan timer is active only if its
\* monitoring flag is on.
C18_TimerActiveOnlyIfMonitoring ==
    \A t \in Objects : TimerActive(t) => tab[t].monitoring

\* the user has stopped a tab whose scan timer was running
C18_Witness ==
    \E t \in Objects :
        /\ ev.op \in {"toggle_monitoring", "toggle_all_monitoring"}
        /\ ~tab[t].monitoring /\ ~TimerActive(t)
        /\ tab[t].page_ready /\ tab[t].js_pending > 0

\* C19: between event handlers a tab that is monitoring, not paused and
\* whose page is ready has an active scan timer.
C19_PollingNeverStuck ==
    \A t \in Objects :
        (tab[t].monitoring /\ ~tab[t].paused /\ tab[t].page_ready)
            => TimerActive(t)

\* a reload stopped the scan timer of a monitoring tab, and the load that
\* followed has started it again
C19_Witness ==
    \E t \in Objects :
        /\ LoadSucceeded(ev, t) /\ tab[t].monitoring /\ ~tab[t].paused
        /\ TimerActive(t) /\ tab[t].reload_timer = Ticks(RELOAD_INTERVAL)

\* tab t did something a closed tab is said not to do
ActedAsOpen(t) ==
    /\ ev.t = t
    /\ \/ ev.op = "reload_page"
       \/ ev.op = "scan_page" /\ ev.scan
       \/ ev.op = "handle_js_count" /\ (ev.alert \/ ev.pause > 0 \/ ev.logs # {})

\* C20: a tab closed through the context menu reloads and scans no more,
\* produces no alert, pause or log entry, and is not in the list written at
\* window close.
C20_ClosedTabIsInert ==
    \A t \in Objects :
        ~InBar(t) =>
            /\ ~ActedAsOpen(t)
            /\ Saved => \A i \in 1..Len(config_file.recs) :
                            config_file.recs[i] # get_state(tab[t])

----------------------------------------------------------------------------
(* Claims about the no-orders pause and the price-limit log *)

\* handle_js_count has just processed the result [n, sum, avg] for tab t
Processed(t) == ev'.op = "handle_js_count" /\ ev'.t = t /\ ev'.ok

\* the handler wrote the no-orders log entry and began the 180-second pause
\* with the counter back at 0
NoOrdersPause(t) ==
    /\ "no_orders" \in ev'.logs
    /\ ev'.pause = NO_ORDERS_PAUSE
    /\ tab'[t].paused /\ tab'[t].monitor_timer = Inactive
    /\ Len(tab'[t].resumes) = Len(tab[t].resumes) + 1
    /\ tab'[t].resumes[Len(tab'[t].resumes)] =
           [rem |-> Ticks(NO_ORDERS_PAUSE * 1000), alert |-> FALSE]
    /\ tab'[t].empty_scan_count = 0

\* a zero-count result that extends the run of consecutive zero-count results
\* adds one to the counter and the fifth of the run begins the pause; every
\* other result ends the run and leaves the counter at 0
C21_Step ==
    \A t \in Objects :
        Processed(t) =>
            LET counted == ev'.n = 0 /\ tab[t].monitoring /\ ~tab[t].paused
                fifth == counted /\ tab[t].empty_scan_count = EMPTY_SCAN_LIMIT - 1
            IN  /\ (NoOrdersPause(t) <=> fifth)
                /\ ("no_orders" \in ev'.logs) => fifth
                /\ (counted /\ ~fifth) =>
                       tab'[t].empty_scan_count = tab[t].empty_scan_count + 1
                /\ ~counted => tab'[t].empty_scan_count = 0

\* the counter of consecutive zero-count results is between 0 and 4
C21_CounterInRange ==
    \A t \in Objects : tab[t].empty_scan_count \in 0..(EMPTY_SCAN_LIMIT - 1)

\* C21: the no-orders pause (log entry, 180-second pause, counter reset to 0)
\* begins exactly when the fifth consecutive zero-count result is processed
\* while the tab is monitoring and not paused; any other result resets the
\* counter, which is always between 0 and 4 between handlers.
C21_NoOrdersPauseAtFifthZero == []C21_CounterInRange /\ [][C21_Step]_vars

\* process_text has just handled a page text for tab t
TextProcessed(t) == ev'.op = "process_text" /\ ev'.t = t

\* process_text began the pause of PAUSE_ON_EMPTY_SECONDS with the empty-scan
\* counter back at 0
EmptyScanPause(t) ==
    /\ ev'.pause = PAUSE_ON_EMPTY_SECONDS /\ ~ev'.alert
    /\ tab'[t].paused /\ tab'[t].monitor_timer = Inactive
    /\ Len(tab'[t].resumes) = Len(tab[t].resumes) + 1
    /\ tab'[t].resumes[Len(tab'[t].resumes)] =
           [rem |-> Ticks(PAUSE_ON_EMPTY_SECONDS * 1000), alert |-> FALSE]
    /\ tab'[t].empty_scan_count = 0

\* the scan is counted: one is added to the counter, or as the tenth it
\* begins the pause
CountedAsEmpty(t) ==
    IF tab[t].empty_scan_count = MAX_EMPTY_SCANS - 1
    THEN EmptyScanPause(t)
    ELSE /\ tab'[t].empty_scan_count = tab[t].empty_scan_count + 1
         /\ ev'.pause = 0 /\ tab'[t].paused = tab[t].paused

C22_Step ==
    \A t \in Objects :
        TextProcessed(t) =>
            /\ (ev'.n = 1 /\ tab[t].threshold > 0) => CountedAsEmpty(t)
            /\ (ev'.n = 0 /\ tab[t].threshold > -1) =>
                   /\ tab'[t].empty_scan_count = 0
                   /\ ev'.pause = 0 /\ tab'[t].paused = tab[t].paused

\* the empty-scan counter is between 0 and 9
C22_CounterInRange ==
    \A t \in Objects : tab[t].empty_scan_count \in 0..(MAX_EMPTY_SCANS - 1)

GapElapsed(r) == r.last_price_alert_time >= Ticks(PRICE_ALERT_GAP * 1000)

\* last_price_alert_time is the time of the tab's last price-limit log entry:
\* an entry is written only by handle_js_count, when there was none before or
\* the last is at least 120 seconds old, and only the passing of time changes
\* its age until the next entry
PriceEntriesApart ==
    \A t \in Objects :
        IF "price" \in ev'.logs /\ ev'.t = t
        THEN /\ Processed(t)
             /\ tab[t].last_price_alert_time = NoTime \/ GapElapsed(tab[t])
             /\ tab'[t].last_price_alert_time = 0
        ELSE IF ev'.op = "tick"
        THEN tab'[t].last_price_alert_time =
                 IF tab[t].last_price_alert_time = NoTime \/ GapElapsed(tab[t])
                 THEN tab[t].last_price_alert_time
                 ELSE tab[t].last_price_alert_time + 1
        ELSE tab'[t].last_price_alert_time = tab[t].last_price_alert_time

\* C23 as stated: a price-limit log entry is written only for a result with
\* count > 0 whose average price is at least the tab's price limit, and two
\* entries of a tab are at least 120 seconds apart.
C23_PriceLogOnlyAtLimit ==
    [][/\ PriceEntriesApart
       /\ \A t \in Objects :
              ("price" \in ev'.logs /\ ev'.t = t) =>
                  (ev'.n > 0 /\ ev'.avg >= tab[t].max_order_price.m)]_vars

\* C23 (amended): a price-limit log entry is written only for a result with
\* count > 0 whose average price rounded to cents is at least the tab's price
\* limit rounded to cents (an average just below the limit qualifies when it
\* rounds up to it), and two entries of a tab are at least 120 seconds apart.
C23_PriceLogOnlyAtRoundedLimit ==
    [][/\ PriceEntriesApart
       /\ \A t \in Objects :
              ("price" \in ev'.logs /\ ev'.t = t) =>
                  /\ ev'.n > 0
                  /\ Round2(ev'.avg) >= Round2(tab[t].max_order_price.m)]_vars

\* a result that reaches the price limit less than 120 seconds after the
\* tab's last price-limit entry was processed without a second entry
C23_Witness ==
    \E t \in Objects :
        /\ Handled(t) /\ ev.n > 0
        /\ Round2(ev.avg) >= Round2(tab[t].max_order_price.m)
        /\ "price" \notin ev.logs
        /\ tab[t].last_price_alert_time # NoTime /\ ~GapElapsed(tab[t])

----------------------------------------------------------------------------
(* Claims about unusable config records *)

\* a value of a config record that int() or float() accepts, or no value
Convertible(v) ==
    \/ v = Missing
    \/ v.k \in {"int", "float"}
    \/ v.k = "str" /\ IsNumeric(v.s)

\* the record is not an object, or its threshold, resume_delay or
\* max_order_price cannot be converted to a number
Unusable(rec) ==
    \/ rec.k # "obj"
    \/ ~Convertible(rec.threshold)
    \/ ~Convertible(rec.resume_delay)
    \/ ~Convertible(rec.max_order_price)

\* the positions of the usable records of the config list, and the j-th of them
UsableIdx == {i \in 1..Len(config_file.recs) : ~Unusable(config_file.recs[i])}
NthUsable(j) ==
    CHOOSE i \in UsableIdx : Cardinality({k \in UsableIdx : k < i}) = j - 1

\* tab r is the tab load_tabs creates for record rec at position i
TabFor(r, rec, i) ==
    /\ r.tab_name = IF rec.name = Missing THEN TabLabel(i) ELSE rec.name.s
    /\ r.original_url = Get(rec.url, EmptyUrl)
    /\ r.threshold = PyInt(Get(rec.threshold, JInt(DEFAULT_THRESHOLD)))
    /\ r.resume_delay = PyInt(Get(rec.resume_delay, JInt(DEFAULT_RESUME_DELAY)))
    /\ NumEq(r.max_order_price,
             PyFloat(Get(rec.max_order_price, JInt(DEFAULT_MAX_ORDER_PRICE))))

\* C24: from a readable config list, load_tabs raises nothing, creates no tab
\* for a record that is not an object or whose threshold, resume_delay or
\* max_order_price cannot be converted to a number, and creates one tab for
\* every other record, in list order.
C24_UnusableRecordIsSkipped ==
    (ev.op = "load_tabs" /\ config_file.k = "list") =>
        /\ ~ev.exc
        /\ Len(tabs) = Cardinality(UsableIdx)
        /\ Cardinality(Objects) = Len(tabs)
        /\ \A j \in 1..Len(tabs) :
              TabFor(tab[tabs[j]], config_file.recs[NthUsable(j)], NthUsable(j))

\* a list whose first record has a value that does not convert and whose
\* second record is usable was loaded: the one tab is the second record's
C24_Witness ==
    /\ ev.op = "load_tabs" /\ config_file.k = "list"
    /\ Len(config_file.recs) = 2
    /\ config_file.recs[1].k = "obj" /\ Unusable(config_file.recs[1])
    /\ ~Unusable(config_file.recs[2])
    /\ Len(tabs) = 1 /\ tab[tabs[1]].tab_name = TabLabel(2)

====
